---- MODULE Spec2Model ----
(***************************************************************************)
(* Model of the caption editor in src/src/App.js: the React state of the   *)
(* App component (captions, currentCaption, editingIndex, videoURL,        *)
(* typedVideoURL, videoError, the debounce timer) and one action per       *)
(* event handler / effect.  Times are kept as the raw strings the form     *)
(* fields hold (sequences of one-character strings) and are parsed with    *)
(* ParseFloat wherever the code calls parseFloat; parsed values are in     *)
(* milliseconds so that fractional seconds stay integral.                  *)
(***************************************************************************)
EXTENDS Integers, Sequences, FiniteSets, TLC

VARIABLES videoURL, typedVideoURL, captions, currentCaption, videoError,
          editingIndex, debounceTimeout, timers, toast, crashed,
          selected

vars == <<videoURL, typedVideoURL, captions, currentCaption, videoError,
          editingIndex, debounceTimeout, timers, toast, crashed,
          selected>>

\* selected is a history variable, not program state: the current position
\* (0-based) of the caption the user last chose with its Edit button, Null
\* when no edit is open, Gone when that caption no longer exists.

-----------------------------------------------------------------------------
(* Bounds of the inputs the user types.                                    *)

\* largest whole second typed into the start / end fields
MaxTime == 2

-----------------------------------------------------------------------------
(* Values.                                                                 *)

\* useState(null): no caption is being edited
Null == 0 - 1
\* history value: the caption chosen for editing was deleted or cleared
Gone == 0 - 2
\* the result of parseFloat on a string with no leading number
NaN == 0 - 1000000000

Digits == <<"0", "1", "2", "3", "4", "5", "6", "7", "8", "9">>
IsDigit(c) == \E d \in 1..10 : Digits[d] = c
DigitVal(c) == (CHOOSE d \in 1..10 : Digits[d] = c) - 1

RECURSIVE DigitPrefixLen(_)
DigitPrefixLen(s) ==
    IF s = <<>> \/ ~IsDigit(Head(s)) THEN 0 ELSE 1 + DigitPrefixLen(Tail(s))

RECURSIVE DigitsToNat(_, _)
DigitsToNat(s, acc) ==
    IF s = <<>> THEN acc ELSE DigitsToNat(Tail(s), acc * 10 + DigitVal(Head(s)))

\* the first three fractional digits as milliseconds
FracMillis(f) ==
    LET d(i) == IF i <= Len(f) THEN DigitVal(f[i]) ELSE 0
    IN  d(1) * 100 + d(2) * 10 + d(3)

\* parseFloat: optional sign, digits, optional "." and digits; whatever
\* follows the number is ignored; NaN when there is no digit at all.
ParseFloat(s) ==
    LET neg   == s # <<>> /\ Head(s) = "-"
        body  == IF s # <<>> /\ Head(s) \in {"-", "+"} THEN Tail(s) ELSE s
        n     == DigitPrefixLen(body)
        rest  == SubSeq(body, n + 1, Len(body))
        hasPt == rest # <<>> /\ Head(rest) = "."
        m     == IF hasPt THEN DigitPrefixLen(Tail(rest)) ELSE 0
        frac  == IF hasPt THEN SubSeq(rest, 2, m + 1) ELSE <<>>
        mag   == DigitsToNat(SubSeq(body, 1, n), 0) * 1000 + FracMillis(frac)
    IN  IF n = 0 /\ m = 0 THEN NaN
        ELSE IF neg THEN 0 - mag ELSE mag

\* JavaScript's relational operators on numbers: false whenever an operand
\* is NaN
JsLt(a, b) == a # NaN /\ b # NaN /\ a < b
JsLe(a, b) == a # NaN /\ b # NaN /\ a <= b
JsGt(a, b) == a # NaN /\ b # NaN /\ a > b
\* >= written as >: equal operands compare false
JsGeStrict(a, b) == a # NaN /\ b # NaN /\ a > b
JsGe(a, b) == a # NaN /\ b # NaN /\ a >= b

\* String(n) for the whole seconds the user types
RECURSIVE NatStr(_)
NatStr(n) == IF n < 10 THEN <<Digits[n + 1]>>
             ELSE NatStr(n \div 10) \o <<Digits[(n % 10) + 1]>>
NumStr(n) == IF n < 0 THEN <<"-">> \o NatStr(0 - n) ELSE NatStr(n)

\* what a type="number" field can hold: the empty string or a number (the
\* field accepts a sign, so one negative value is typed as well)
TimeInputs == {<<>>, NumStr(0 - 1)} \cup {NumStr(n) : n \in 0..MaxTime}
TextInputs == {"", "a"}
URLInputs  == {"", "u"}

EmptyCaption == [text |-> "", start |-> <<>>, end |-> <<>>]

\* Array slots: a caption object, an empty slot of a sparse array (hole),
\* or the value undefined.
Cap(c)    == [kind |-> "cap", text |-> c.text, start |-> c.start, end |-> c.end]
Hole      == [kind |-> "hole", text |-> "", start |-> <<>>, end |-> <<>>]
Undefined == [kind |-> "undefined", text |-> "", start |-> <<>>, end |-> <<>>]
Draft(e)  == [text |-> e.text, start |-> e.start, end |-> e.end]

MsgFill    == "Please fill all fields."
MsgRange   == "Start time must be less than end time."
MsgOverlap == "The specified time range overlaps with an existing caption."
MsgAdded   == "Caption added successfully!"
MsgUpdated == "Caption updated successfully!"
MsgDeleted == "Caption deleted successfully!"
NoToast    == "none"

-----------------------------------------------------------------------------
(* Array operations used by the handlers.                                  *)

\* [...arr]: iterating a sparse array yields undefined for its holes
Spread(arr) == [k \in 1..Len(arr) |->
                   IF arr[k].kind = "hole" THEN Undefined ELSE arr[k]]

\* arr[i] = v (i is 0-based): assigning past the end leaves holes
SetIndex(arr, i, v) ==
    IF i < Len(arr) THEN [arr EXCEPT ![i + 1] = v]
    ELSE [k \in 1..(i + 1) |->
             IF k <= Len(arr) THEN arr[k]
             ELSE IF k = i + 1 THEN v ELSE Hole]

\* arr.filter((_, idx) => idx !== index): holes are not visited and the
\* result is dense
RECURSIVE FilterFrom(_, _, _)
FilterFrom(arr, k, index) ==
    IF k > Len(arr) THEN <<>>
    ELSE IF arr[k].kind # "hole" /\ k - 1 # index
         THEN <<arr[k]>> \o FilterFrom(arr, k + 1, index)
         ELSE FilterFrom(arr, k + 1, index)
FilterOut(arr, index) == FilterFrom(arr, 1, index)

\* ClauseOverlap without its third clause (a range containing the caption)
ClauseOverlapNoContain(startTime, endTime, caption) ==
    LET cs == ParseFloat(caption.start)
        ce == ParseFloat(caption.end)
    IN  \/ JsGe(startTime, cs) /\ JsLt(startTime, ce)
        \/ JsGt(endTime, cs) /\ JsLe(endTime, ce)

\* the three-clause test of captions.some(...) for one caption
ClauseOverlap(startTime, endTime, caption) ==
    LET cs == ParseFloat(caption.start)
        ce == ParseFloat(caption.end)
    IN  \/ JsGe(startTime, cs) /\ JsLt(startTime, ce)
        \/ JsGt(endTime, cs) /\ JsLe(endTime, ce)
        \/ JsLe(startTime, cs) /\ JsGe(endTime, ce)

\* isOverlapping with closed intervals: a shared endpoint counts as overlap
isOverlappingClosed(arr, edIdx, startTime, endTime) ==
    \E k \in 1..Len(arr) :
        /\ arr[k].kind = "cap"
        /\ k - 1 # edIdx
        /\ JsLe(startTime, ParseFloat(arr[k].end))
        /\ JsLe(ParseFloat(arr[k].start), endTime)

\* captions.some((caption, index) => index !== editingIndex && ...):
\* some() does not visit holes
isOverlapping(arr, edIdx, startTime, endTime) ==
    \E k \in 1..Len(arr) :
        /\ arr[k].kind = "cap"
        /\ k - 1 # edIdx
        /\ ClauseOverlap(startTime, endTime, arr[k])

\* rendering (captions.map / generateVTT's forEach) reads caption.start of
\* every visited element: an undefined element throws
RenderThrows(arr) == \E k \in 1..Len(arr) : arr[k].kind = "undefined"

-----------------------------------------------------------------------------
(* The subtitle track.  Strings are sequences of one-character strings;    *)
(* a caption's text is kept as one element.                                *)

\* String.prototype.padStart(width, "0")
RECURSIVE PadStart(_, _)
PadStart(str, width) ==
    IF Len(str) >= width THEN str ELSE PadStart(<<"0">> \o str, width)

\* seconds * 1000 handed to new Date(...): the string is converted to a
\* number (the empty string to 0) and the time value drops the fraction of
\* a millisecond
TimeValue(seconds) == IF seconds = <<>> THEN 0 ELSE ParseFloat(seconds)

\* getUTCHours() of the Date: the hour of the day
UTCHours(t) == (t \div 3600000) % 24
\* the whole minutes of the offset, not reduced to the minute of the hour
TotalMinutes(t) == t \div 60000
UTCMinutes(t) == (t \div 60000) % 60
UTCSeconds(t) == (t \div 1000) % 60
UTCMilliseconds(t) == t % 1000

InvalidDate == <<"N", "a", "N", ":", "N", "a", "N", ":", "N", "a", "N", ".",
                 "N", "a", "N">>

formatTime(seconds) ==
    LET t  == TimeValue(seconds)
        hh == PadStart(NatStr(UTCHours(t)), 2)
        mm == PadStart(NatStr(UTCMinutes(t)), 2)
        ss == PadStart(NatStr(UTCSeconds(t)), 2)
        ms == PadStart(NatStr(UTCMilliseconds(t)), 3)
    IN  IF t = NaN THEN InvalidDate
        ELSE hh \o <<":">> \o mm \o <<":">> \o ss \o <<".">> \o ms

VTTHeader == <<"W", "E", "B", "V", "T", "T", "\n", "\n">>
Arrow     == <<" ", "-", "-", ">", " ">>
\* what generateVTT yields when the forEach callback throws
Threw     == <<"TypeError">>

\* one pass of the forEach callback for the element at position k (1-based;
\* the callback's index is k - 1)
CueBlock(caption, k) ==
    NatStr(k) \o <<"\n">> \o formatTime(caption.start) \o Arrow
              \o formatTime(caption.end) \o <<"\n", caption.text, "\n", "\n">>

\* captions.forEach(...): empty slots are not visited
RECURSIVE CuesFrom(_, _)
CuesFrom(arr, k) ==
    IF k > Len(arr) THEN <<>>
    ELSE IF arr[k].kind = "hole" THEN CuesFrom(arr, k + 1)
    ELSE CueBlock(arr[k], k) \o CuesFrom(arr, k + 1)

\* the text generateVTT puts into the Blob
generateVTT(arr) ==
    IF \E k \in 1..Len(arr) : arr[k].kind = "undefined" THEN Threw
    ELSE VTTHeader \o CuesFrom(arr, 1)

\* the caption card (form, list, Edit / Delete buttons) is rendered
CardVisible == videoURL # "" /\ ~videoError /\ ~crashed

-----------------------------------------------------------------------------
Init ==
    /\ videoURL = ""
    /\ typedVideoURL = ""
    /\ captions = <<>>
    /\ currentCaption = EmptyCaption
    /\ videoError = FALSE
    /\ editingIndex = Null
    /\ debounceTimeout = Null
    /\ timers = {}
    /\ toast = NoToast
    /\ crashed = FALSE
    /\ selected = Null

handleCaptionChange(name, value) ==
    /\ CardVisible
    /\ currentCaption[name] # value
    /\ currentCaption' = [currentCaption EXCEPT ![name] = value]
    /\ UNCHANGED <<videoURL, typedVideoURL, captions, videoError, editingIndex,
                   debounceTimeout, timers, toast, crashed, selected>>

\* setTimeout returns an id no live timer and no held reference uses
FreshTimerId(pending, ref) ==
    CHOOSE n \in 1..(Cardinality(pending) + 2) :
        /\ n # ref
        /\ \A t \in pending : t.id # n
        /\ \A k \in 1..(n - 1) : k = ref \/ \E t \in pending : t.id = k

\* handleVideoInputChange without the clearTimeout of the previous timer
handleVideoInputChangeNoClear(value) ==
    /\ ~crashed
    /\ value # typedVideoURL
    /\ typedVideoURL' = value
    /\ LET id == FreshTimerId(timers, debounceTimeout)
       IN  /\ timers' = timers \cup {[id |-> id, value |-> value]}
           /\ debounceTimeout' = id
    /\ UNCHANGED <<videoURL, captions, currentCaption, videoError,
                   editingIndex, toast, crashed, selected>>

handleVideoInputChange(value) ==
    /\ ~crashed
    /\ value # typedVideoURL
    /\ typedVideoURL' = value
    /\ LET cleared == {t \in timers : t.id # debounceTimeout}
           id      == FreshTimerId(cleared, debounceTimeout)
       IN  /\ timers' = cleared \cup {[id |-> id, value |-> value]}
           /\ debounceTimeout' = id
    /\ UNCHANGED <<videoURL, captions, currentCaption, videoError,
                   editingIndex, toast, crashed, selected>>

\* the body of useEffect(..., [videoURL])
VideoURLEffect ==
    /\ captions' = <<>>
    /\ currentCaption' = EmptyCaption
    /\ videoError' = FALSE

\* a timer callback whose setVideoURL always re-runs the effect
TimerFiresAlwaysResets(t) ==
    /\ ~crashed
    /\ t \in timers
    /\ timers' = timers \ {t}
    /\ videoURL' = t.value
    /\ VideoURLEffect
    /\ selected' = IF selected = Null THEN Null ELSE Gone
    /\ UNCHANGED <<typedVideoURL, editingIndex, debounceTimeout, toast, crashed>>

\* a debounce timer fires: setVideoURL(value); the effect runs only when the
\* state value actually changes
TimerFires(t) ==
    /\ ~crashed
    /\ t \in timers
    /\ timers' = timers \ {t}
    /\ IF t.value # videoURL
       THEN /\ videoURL' = t.value
            /\ VideoURLEffect
            /\ selected' = IF selected = Null THEN Null ELSE Gone
       ELSE UNCHANGED <<videoURL, captions, currentCaption, videoError, selected>>
    /\ UNCHANGED <<typedVideoURL, editingIndex, debounceTimeout, toast, crashed>>

\* a rejection that also resets the form
RejectResetsDraft(msg) ==
    /\ toast' = msg
    /\ currentCaption' = EmptyCaption
    /\ UNCHANGED <<captions, editingIndex, crashed, selected>>

\* toast.error(msg); return;
Reject(msg) ==
    /\ toast' = msg
    /\ UNCHANGED <<captions, currentCaption, editingIndex, crashed, selected>>

addOrUpdateCaption ==
    /\ CardVisible
    /\ LET text      == currentCaption.text
           start     == currentCaption.start
           end       == currentCaption.end
           startTime == ParseFloat(start)
           endTime   == ParseFloat(end)
       IN  IF text = "" \/ start = <<>> \/ end = <<>>
           THEN Reject(MsgFill)
           ELSE IF JsGe(startTime, endTime)
           THEN Reject(MsgRange)
           ELSE IF isOverlapping(captions, editingIndex, startTime, endTime)
           THEN Reject(MsgOverlap)
           ELSE /\ IF editingIndex # Null
                   THEN /\ captions' = SetIndex(Spread(captions), editingIndex,
                                                Cap(currentCaption))
                        /\ editingIndex' = Null
                        /\ toast' = MsgUpdated
                   ELSE /\ captions' = Spread(captions) \o <<Cap(currentCaption)>>
                        /\ toast' = MsgAdded
                        /\ UNCHANGED editingIndex
                /\ currentCaption' = EmptyCaption
                /\ crashed' = RenderThrows(captions')
                /\ selected' = Null
    /\ UNCHANGED <<videoURL, typedVideoURL, videoError, debounceTimeout, timers>>

\* handleEditCaption without the pre-fill of the form
handleEditCaptionNoLoad(index) ==
    /\ CardVisible
    /\ index \in 0..(Len(captions) - 1)
    /\ captions[index + 1].kind = "cap"
    /\ editingIndex' = index
    /\ selected' = index
    /\ UNCHANGED <<videoURL, typedVideoURL, captions, currentCaption, videoError,
                   debounceTimeout, timers, toast, crashed>>

\* the Edit button of the list item rendered for captions[index]
handleEditCaption(index) ==
    /\ CardVisible
    /\ index \in 0..(Len(captions) - 1)
    /\ captions[index + 1].kind = "cap"
    /\ currentCaption' = Draft(captions[index + 1])
    /\ editingIndex' = index
    /\ selected' = index
    /\ UNCHANGED <<videoURL, typedVideoURL, captions, videoError,
                   debounceTimeout, timers, toast, crashed>>

\* the Delete button of the list item rendered for captions[index]
handleDeleteCaption(index) ==
    /\ CardVisible
    /\ index \in 0..(Len(captions) - 1)
    /\ captions[index + 1].kind = "cap"
    /\ captions' = FilterOut(captions, index)
    /\ toast' = MsgDeleted
    /\ selected' = IF selected < 0 THEN selected
                   ELSE IF selected = index THEN Gone
                   ELSE Len(FilterOut(SubSeq(captions, 1, selected), index))
    /\ UNCHANGED <<videoURL, typedVideoURL, currentCaption, videoError,
                   editingIndex, debounceTimeout, timers, crashed>>

\* the <video> element reports a load error
handleVideoError ==
    /\ CardVisible
    /\ videoError' = TRUE
    /\ UNCHANGED <<videoURL, typedVideoURL, captions, currentCaption,
                   editingIndex, debounceTimeout, timers, toast, crashed,
                   selected>>

ChangeText  == \E v \in TextInputs : handleCaptionChange("text", v)
ChangeStart == \E v \in TimeInputs : handleCaptionChange("start", v)
ChangeEnd   == \E v \in TimeInputs : handleCaptionChange("end", v)
TypeURL     == \E v \in URLInputs : handleVideoInputChange(v)
Debounce    == \E t \in timers : TimerFires(t)
EditClick   == \E i \in 0..(Len(captions) - 1) : handleEditCaption(i)
DeleteClick == \E i \in 0..(Len(captions) - 1) : handleDeleteCaption(i)

Next ==
    \/ ChangeText
    \/ ChangeStart
    \/ ChangeEnd
    \/ TypeURL
    \/ Debounce
    \/ addOrUpdateCaption
    \/ EditClick
    \/ DeleteClick
    \/ handleVideoError

Spec == Init /\ [][Next]_vars

-----------------------------------------------------------------------------
(* Time formatting is examined on stores that hold one caption whose start *)
(* and end are sample offsets: the state after the URL was entered, the    *)
(* draft typed and Add Caption clicked.                                    *)

\* largest whole hour of a sample offset
MaxHour == 99

SampleHours   == {0, 1, 23, 24, 25, 48, MaxHour}
SampleMinutes == {0, 1, 59}
SampleSeconds == {0, 1, 59}
\* fractions of a second whose product with 1000 is exact in binary
\* floating point
SampleFractions == {<<>>, <<".", "5">>, <<".", "2", "5">>, <<".", "8", "7", "5">>}

FormatInputs ==
    {NatStr(h * 3600 + m * 60 + sec) \o f :
        h \in SampleHours, m \in SampleMinutes, sec \in SampleSeconds,
        f \in SampleFractions}

InitFormat ==
    /\ videoURL = "u"
    /\ typedVideoURL = "u"
    /\ \E st \in FormatInputs : \E en \in FormatInputs :
          /\ JsLt(ParseFloat(st), ParseFloat(en))
          /\ captions = <<Cap([text |-> "a", start |-> st, end |-> en])>>
    /\ currentCaption = EmptyCaption
    /\ videoError = FALSE
    /\ editingIndex = Null
    /\ debounceTimeout = 1
    /\ timers = {}
    /\ toast = MsgAdded
    /\ crashed = FALSE
    /\ selected = Null

NextFormat ==
    \/ EditClick
    \/ DeleteClick

SpecFormat == InitFormat /\ [][NextFormat]_vars

-----------------------------------------------------------------------------
(* Vocabulary of the properties.                                           *)

\* positions (1-based) of the array that hold a caption
CapIdx(arr) == {k \in 1..Len(arr) : arr[k].kind = "cap"}
StartOf(c) == ParseFloat(c.start)
EndOf(c)   == ParseFloat(c.end)

\* half-open intervals [s1,e1) and [s2,e2) intersect
HalfOpenOverlap(s1, e1, s2, e2) == s1 < e2 /\ s2 < e1

DraftComplete ==
    currentCaption.text # "" /\ currentCaption.start # <<>>
                             /\ currentCaption.end # <<>>
DraftOrdered == StartOf(currentCaption) < EndOf(currentCaption)

\* the draft intersects a caption at an index other than the edit cursor's
DraftOverlapsOther ==
    \E k \in CapIdx(captions) :
        /\ k - 1 # editingIndex
        /\ HalfOpenOverlap(StartOf(currentCaption), EndOf(currentCaption),
                           StartOf(captions[k]), EndOf(captions[k]))

StoredOrdered == \A k \in CapIdx(captions) : StartOf(captions[k]) < EndOf(captions[k])

ErrorToasts   == {MsgFill, MsgRange, MsgOverlap}
SuccessToasts == {MsgAdded, MsgUpdated}

-----------------------------------------------------------------------------
\* C1: in every reachable state any two distinct captions of the store have
\* non-overlapping half-open intervals [start, end); touching endpoints are
\* allowed.
C1_NoOverlap ==
    \A a \in CapIdx(captions) : \A b \in CapIdx(captions) :
        a # b => ~HalfOpenOverlap(StartOf(captions[a]), EndOf(captions[a]),
                                  StartOf(captions[b]), EndOf(captions[b]))

\* an update has just been committed into a store that holds two captions
\* with a shared endpoint
C1_Witness ==
    /\ toast = MsgUpdated
    /\ \E a \in CapIdx(captions) : \E b \in CapIdx(captions) :
          a # b /\ EndOf(captions[a]) = StartOf(captions[b])

\* C2: deleting the caption at index i while the edit cursor is Editing(i)
\* leaves the edit cursor Idle.
C2_DeleteEditedClearsCursor ==
    [][\A i \in 0..(Len(captions) - 1) :
          (handleDeleteCaption(i) /\ editingIndex = i) => editingIndex' = Null]_vars

\* C3: deleting the caption at index j while the edit cursor is Editing(i),
\* j < i, moves the edit cursor to Editing(i-1).
C3_DeleteBeforeShiftsCursor ==
    [][\A j \in 0..(Len(captions) - 1) :
          (handleDeleteCaption(j) /\ editingIndex # Null /\ j < editingIndex)
              => editingIndex' = editingIndex - 1]_vars

\* C4: whenever videoURL changes, the resulting state has an empty caption
\* sequence and an Idle edit cursor.
C4_SourceChangeClears ==
    [][videoURL' # videoURL => (captions' = <<>> /\ editingIndex' = Null)]_vars

\* C5: the edit cursor is never dangling: Editing(i) implies 0 <= i < length.
C5_CursorValid ==
    editingIndex # Null => editingIndex \in 0..(Len(captions) - 1)

\* C6: a complete draft with start < end that overlaps no caption other
\* than the one under the edit cursor is accepted; the length grows by one
\* when the cursor is Idle and is unchanged when the cursor is Editing(i).
C6_ValidDraftCommits ==
    [][(addOrUpdateCaption /\ DraftComplete /\ DraftOrdered /\ ~DraftOverlapsOther)
          => /\ toast' \in SuccessToasts
             /\ editingIndex = Null => Len(captions') = Len(captions) + 1
             /\ editingIndex # Null => Len(captions') = Len(captions)]_vars

\* C7: for a draft with start < end and a store whose captions all have
\* start < end, add/update rejects the draft as overlapping if and only if
\* some caption at an index other than the edit cursor's intersects the
\* draft's half-open interval.
C7_OverlapIff ==
    [][(addOrUpdateCaption /\ DraftComplete /\ DraftOrdered /\ StoredOrdered)
          => (toast' = MsgOverlap <=> DraftOverlapsOther)]_vars

\* an edit has just been rejected as overlapping although another caption of
\* the store touches the draft's interval
C7_Witness ==
    /\ toast = MsgOverlap
    /\ editingIndex # Null
    /\ DraftComplete /\ DraftOrdered /\ DraftOverlapsOther
    /\ \E k \in CapIdx(captions) :
          k - 1 # editingIndex /\ EndOf(captions[k]) = StartOf(currentCaption)

\* C8: an add/update that fails validation (missing field, start >= end, or
\* overlap) leaves the caption sequence, the edit cursor and the draft as
\* they were.
C8_FailureKeepsState ==
    [][(addOrUpdateCaption /\ (~DraftComplete \/ ~DraftOrdered \/ DraftOverlapsOther))
          => (toast' \in ErrorToasts
              /\ UNCHANGED <<captions, editingIndex, currentCaption>>)]_vars

\* a rejected update: captions in the store, a cursor, and a non-empty draft
\* still in the form
C8_Witness ==
    /\ toast \in ErrorToasts
    /\ captions # <<>>
    /\ editingIndex # Null
    /\ currentCaption.text # ""
    /\ ~DraftComplete \/ ~DraftOrdered \/ DraftOverlapsOther

\* C9: a successful commit while Editing(i) replaces only the caption at
\* index i; a successful commit while Idle appends the caption at the end;
\* all other captions keep their values and positions.
C9_CommitFrame ==
    [][(addOrUpdateCaption /\ toast' \in SuccessToasts)
          => IF editingIndex # Null
             THEN /\ editingIndex < Len(captions)
                  /\ captions' = [captions EXCEPT ![editingIndex + 1] =
                                                      Cap(currentCaption)]
             ELSE captions' = Append(captions, Cap(currentCaption))]_vars

\* C10: delete(index) removes exactly the caption at index: the length
\* decreases by one, earlier captions keep their positions and later ones
\* move down by one.
C10_DeleteExact ==
    [][\A i \in 0..(Len(captions) - 1) :
          handleDeleteCaption(i)
              => /\ Len(captions') = Len(captions) - 1
                 /\ \A k \in 1..Len(captions') :
                       captions'[k] = IF k <= i THEN captions[k]
                                      ELSE captions[k + 1]]_vars

\* C11: the edit cursor is Idle initially; begin-edit(i) sets it to
\* Editing(i), loads the draft with the values of caption i and leaves the
\* sequence unchanged; a successful commit made while Editing returns it to
\* Idle and empties the draft; it becomes Editing(i) only by begin-edit(i).
C11_CursorMachine ==
    /\ editingIndex = Null
    /\ [][/\ \A i \in 0..(Len(captions) - 1) :
                handleEditCaption(i)
                    => /\ editingIndex' = i
                       /\ currentCaption' = Draft(captions[i + 1])
                       /\ captions' = captions
          /\ (addOrUpdateCaption /\ editingIndex # Null /\ toast' \in SuccessToasts)
                => (editingIndex' = Null /\ currentCaption' = EmptyCaption)
          /\ (editingIndex' # editingIndex /\ editingIndex' # Null)
                => handleEditCaption(editingIndex')]_vars

\* after an update was committed, the second caption of the store has been
\* chosen for editing and the form holds its values
C11_Witness ==
    /\ toast = MsgUpdated
    /\ editingIndex = 1
    /\ Len(captions) >= 2
    /\ captions[2].kind = "cap"
    /\ currentCaption = Draft(captions[2])

\* C18: a successful update overwrites the caption the user selected with
\* begin-edit, also after deletes of other captions: it replaces that
\* caption and no other, and never inserts past the end of the sequence.
C18_UpdateHitsSelected ==
    [][(addOrUpdateCaption /\ toast' = MsgUpdated /\ selected >= 0)
          => /\ selected < Len(captions)
             /\ captions' = [captions EXCEPT ![selected + 1] = Cap(currentCaption)]]_vars

\* the captions of the snapshot, in snapshot order
RECURSIVE CaptionsOf(_)
CaptionsOf(arr) ==
    IF arr = <<>> THEN <<>>
    ELSE IF Head(arr).kind = "cap" THEN <<Head(arr)>> \o CaptionsOf(Tail(arr))
    ELSE CaptionsOf(Tail(arr))

\* the track the format prescribes for caps: blocks numbered 1..n
RECURSIVE TrackBlocks(_, _)
TrackBlocks(caps, k) ==
    IF k > Len(caps) THEN <<>>
    ELSE NatStr(k) \o <<"\n">>
         \o formatTime(caps[k].start) \o Arrow \o formatTime(caps[k].end)
         \o <<"\n", caps[k].text, "\n", "\n">>
         \o TrackBlocks(caps, k + 1)

\* C12: in every reachable state encoding the snapshot succeeds: every
\* position 0..length-1 of the sequence holds a caption (no missing or
\* undefined entry).
C12_EncodeTotal ==
    /\ \A k \in 1..Len(captions) : captions[k].kind = "cap"
    /\ generateVTT(captions) # Threw

\* C13: the encoded track is the header followed by one cue block per
\* caption in snapshot order, the k-th block carrying cue index k, the
\* formatted range and the text of the k-th caption; the empty snapshot
\* encodes to the header alone.
C13_TrackLayout ==
    /\ generateVTT(captions) = VTTHeader \o TrackBlocks(CaptionsOf(captions), 1)
    /\ captions = <<>> => generateVTT(captions) = VTTHeader

\* C14: every stored caption has non-empty text, start and end and
\* end > start; a draft with an empty field is rejected as a missing field
\* and a draft with start >= end as an invalid range.
C14_StoredValid ==
    /\ [](\A k \in CapIdx(captions) :
             /\ captions[k].text # ""
             /\ captions[k].start # <<>>
             /\ captions[k].end # <<>>
             /\ JsGt(EndOf(captions[k]), StartOf(captions[k])))
    /\ [][/\ (addOrUpdateCaption /\ ~DraftComplete)
                => (toast' = MsgFill /\ captions' = captions)
          /\ (addOrUpdateCaption /\ DraftComplete /\ ~DraftOrdered)
                => (toast' = MsgRange /\ captions' = captions)]_vars

\* a draft whose start equals its end has just been rejected while the
\* store holds captions
C14_Witness ==
    /\ toast = MsgRange
    /\ CapIdx(captions) # {}
    /\ DraftComplete
    /\ StartOf(currentCaption) = EndOf(currentCaption)

\* C15: every stored caption has start >= 0.
C15_StartNonNegative ==
    \A k \in CapIdx(captions) : StartOf(captions[k]) >= 0

-----------------------------------------------------------------------------
(* Reading a formatted timestamp back.                                     *)

HourMs == 60 * 60 * 1000
\* the number written in positions from..to of a timestamp
Field(ts, from, to) == DigitsToNat(SubSeq(ts, from, to), 0)
\* ts has the shape DD:DD:DD.DDD
WellFormed(ts) ==
    /\ Len(ts) = 12
    /\ ts[3] = ":" /\ ts[6] = ":" /\ ts[9] = "."
    /\ \A p \in {1, 2, 4, 5, 7, 8, 10, 11, 12} : IsDigit(ts[p])
\* the offsets (as typed) held by the store
StoredOffsets ==
    {captions[k].start : k \in CapIdx(captions)}
        \cup {captions[k].end : k \in CapIdx(captions)}

C19_HoursBeyond23 ==
    \A raw \in StoredOffsets :
        LET t == TimeValue(raw)
        IN  (24 * HourMs <= t /\ t < 100 * HourMs)
               => /\ Field(formatTime(raw), 1, 2) = t \div HourMs
                  /\ \A other \in StoredOffsets :
                        (/\ TimeValue(other) # t
                         /\ (t - TimeValue(other)) % (24 * HourMs) = 0)
                            => formatTime(other) # formatTime(raw)

-----------------------------------------------------------------------------
\* C17: at most one debounce timer is pending and it carries the value
\* typed last; videoURL is only ever assigned, by a firing timer, the value
\* typed most recently; once no timer is pending videoURL equals the last
\* typed value.
C17_Debounce ==
    /\ [](/\ Cardinality(timers) <= 1
          /\ \A t \in timers : t.value = typedVideoURL /\ t.id = debounceTimeout
          /\ timers = {} => videoURL = typedVideoURL)
    /\ [][videoURL' # videoURL => (Debounce /\ videoURL' = typedVideoURL)]_vars

\* "u" was typed and replaced by "" before its timer fired: the timer for ""
\* is pending and videoURL never became "u"
C17_Witness ==
    /\ Cardinality(timers) = 1
    /\ \A t \in timers : t.value = ""
    /\ typedVideoURL = ""
    /\ videoURL = ""
    /\ debounceTimeout = 2

\* C20: typing in the URL field, and a debounce timer that fires with the
\* current videoURL, leave the caption sequence, the draft and the edit
\* cursor unchanged; the number of stored captions decreases only by a
\* delete or by a change of videoURL.
C20_StoreKeptWithoutSourceChange ==
    [][/\ (TypeURL \/ (Debounce /\ videoURL' = videoURL))
             => UNCHANGED <<captions, currentCaption, editingIndex>>
       /\ Cardinality(CapIdx(captions')) < Cardinality(CapIdx(captions))
             => (DeleteClick \/ videoURL' # videoURL)]_vars

\* the URL was typed away and back while captions, a draft and a cursor
\* exist: a timer carrying the current videoURL is pending
C20_Witness ==
    /\ timers # {}
    /\ \A t \in timers : t.value = videoURL
    /\ CapIdx(captions) # {}
    /\ editingIndex # Null
    /\ currentCaption # EmptyCaption

====
